---- MODULE Spec2Model ----
(***************************************************************************)
(* Model of src/scrape.py: the line normaliser clean_line, the dialogue    *)
(* validity check is_valid_dialogue_line and the single-pass segmenter     *)
(* extract_dialogues.                                                      *)
(*                                                                         *)
(* A Python str is modelled as a sequence of characters (each a TLA+       *)
(* string), so that the regular expressions and the str methods of the     *)
(* source are computed character by character.                             *)
(***************************************************************************)
EXTENDS Integers, Sequences, FiniteSets, TLC

(***************************************************************************)
(* Characters                                                              *)
(***************************************************************************)
UpperSeq == <<"A","B","C","D","E","F","G","H","I","J","K","L","M",
              "N","O","P","Q","R","S","T","U","V","W","X","Y","Z">>
LowerSeq == <<"a","b","c","d","e","f","g","h","i","j","k","l","m",
              "n","o","p","q","r","s","t","u","v","w","x","y","z">>
Range(f) == {f[k] : k \in DOMAIN f}
UpperChars == Range(UpperSeq)
LowerChars == Range(LowerSeq)
DigitChars == {"0","1","2","3","4","5","6","7","8","9"}
\* \s of the re module and the default of str.strip()/str.split(); a line
\* never holds "\n" because the page text is split on it.
SpaceChars == {" ", "\t"}
\* the two non-ASCII characters of the patterns, named by their code points
CopyrightSign == "U+00A9"
RightQuote == "U+2019"
PunctChars == {",", ".", "!", "?", "-", "_", "'", "(", ")", ":", "#", "/",
               CopyrightSign, RightQuote}
Char == UpperChars \cup LowerChars \cup DigitChars \cup SpaceChars \cup PunctChars

IndexOf(seq, c) == CHOOSE k \in DOMAIN seq : seq[k] = c
\* str.upper() / str.lower() on one character
ToUpper(c) == IF c \in LowerChars THEN UpperSeq[IndexOf(LowerSeq, c)] ELSE c
ToLower(c) == IF c \in UpperChars THEN LowerSeq[IndexOf(UpperSeq, c)] ELSE c
\* str.upper()
upper(s) == [k \in DOMAIN s |-> ToUpper(s[k])]

(***************************************************************************)
(* A regular expression of the source is a sequence of atoms.  An atom is  *)
(* an anchor ("bol" for ^, "eol" for $), a literal text ("lit", compared   *)
(* without regard to case when icase), or a character class ("set")        *)
(* repeated greedily: at least lo times (0 or 1) and, when many, without   *)
(* limit, else at most once.                                               *)
(***************************************************************************)
Atom(kind, text, icase, set, lo, many) ==
    [kind |-> kind, text |-> text, icase |-> icase, set |-> set, lo |-> lo,
     many |-> many]
Bol == Atom("bol", << >>, FALSE, {}, 0, FALSE)
Eol == Atom("eol", << >>, FALSE, {}, 0, FALSE)
Rep(S, lo, many) == Atom("set", << >>, FALSE, S, lo, many)
One(S)  == Rep(S, 1, FALSE)
Plus(S) == Rep(S, 1, TRUE)
Star(S) == Rep(S, 0, TRUE)
Opt(S)  == Rep(S, 0, FALSE)
\* a literal text, case-sensitive / under re.IGNORECASE
Lit(s)  == <<Atom("lit", s, FALSE, {}, 0, FALSE)>>
LitI(s) == <<Atom("lit", s, TRUE, {}, 0, FALSE)>>

\* the literal text t stands in s at pos
LitAt(t, icase, s, pos) ==
    /\ pos + Len(t) - 1 <= Len(s)
    /\ \A k \in 1..Len(t) :
          IF icase THEN ToUpper(s[pos + k - 1]) = ToUpper(t[k])
          ELSE s[pos + k - 1] = t[k]

RECURSIVE RunLen(_, _, _)
\* how many consecutive characters of s from pos on lie in S
RunLen(S, s, pos) ==
    IF pos > Len(s) \/ s[pos] \notin S THEN 0 ELSE 1 + RunLen(S, s, pos + 1)

RECURSIVE MatchFrom(_, _, _, _)
RECURSIVE TryCount(_, _, _, _, _)
\* The backtracking match of atoms k.. of pat against s at pos: << >> when
\* there is none, else the positions before each atom k.. followed by the
\* position after the match.
MatchFrom(pat, k, s, pos) ==
    IF k > Len(pat) THEN <<pos>>
    ELSE IF pat[k].kind = "bol"
        THEN IF pos = 1
             THEN LET r == MatchFrom(pat, k + 1, s, pos)
                  IN IF r = << >> THEN << >> ELSE <<pos>> \o r
             ELSE << >>
    ELSE IF pat[k].kind = "eol"
        THEN IF pos = Len(s) + 1
             THEN LET r == MatchFrom(pat, k + 1, s, pos)
                  IN IF r = << >> THEN << >> ELSE <<pos>> \o r
             ELSE << >>
    ELSE IF pat[k].kind = "lit"
        THEN IF LitAt(pat[k].text, pat[k].icase, s, pos)
             THEN LET r == MatchFrom(pat, k + 1, s, pos + Len(pat[k].text))
                  IN IF r = << >> THEN << >> ELSE <<pos>> \o r
             ELSE << >>
    ELSE LET run == IF pos <= Len(s) /\ s[pos] \in pat[k].set THEN 1 ELSE 0
             n == IF pat[k].many THEN RunLen(pat[k].set, s, pos) ELSE run
         IN IF n < pat[k].lo THEN << >> ELSE TryCount(pat, k, s, pos, n)

\* greedy: the longest repetition first, then shorter ones down to lo
TryCount(pat, k, s, pos, c) ==
    LET r == MatchFrom(pat, k + 1, s, pos + c)
    IN IF r # << >> THEN <<pos>> \o r
       ELSE IF c > pat[k].lo THEN TryCount(pat, k, s, pos, c - 1)
       ELSE << >>

\* re.match(pat, s) is not None
Matches(pat, s) == MatchFrom(pat, 1, s, 1) # << >>

RECURSIVE SubFrom(_, _, _)
\* re.sub(pat, '', s): the leftmost matches are deleted, scanning from pos.
\* No pattern of the source matches the empty string.
SubFrom(pat, s, pos) ==
    IF pos > Len(s) THEN << >>
    ELSE LET m == MatchFrom(pat, 1, s, pos)
         IN IF m # << >> /\ m[Len(m)] > pos
            THEN SubFrom(pat, s, m[Len(m)])
            ELSE <<s[pos]>> \o SubFrom(pat, s, pos + 1)
re_sub(pat, s) == SubFrom(pat, s, 1)

(***************************************************************************)
(* str methods                                                             *)
(***************************************************************************)
RECURSIVE LStrip(_, _)
LStrip(s, S) == IF s # << >> /\ Head(s) \in S THEN LStrip(Tail(s), S) ELSE s
RECURSIVE RStrip(_, _)
RStrip(s, S) ==
    IF s # << >> /\ s[Len(s)] \in S THEN RStrip(SubSeq(s, 1, Len(s) - 1), S) ELSE s
\* s.strip(chars); s.strip()
StripChars(s, S) == RStrip(LStrip(s, S), S)
strip(s) == StripChars(s, SpaceChars)

\* t == s[pos : pos + len(t)]
IsAt(t, s, pos) == LitAt(t, FALSE, s, pos)
\* t in s
Contains(s, t) == \E pos \in 1..(Len(s) + 1) : IsAt(t, s, pos)
\* s.endswith(t)
endswith(s, t) == Len(t) <= Len(s) /\ IsAt(t, s, Len(s) - Len(t) + 1)

RECURSIVE split(_)
\* s.split(): the maximal runs of non-whitespace characters
split(s) ==
    LET t == LStrip(s, SpaceChars)
        n == RunLen(Char \ SpaceChars, t, 1)
    IN IF t = << >> THEN << >>
       ELSE <<SubSeq(t, 1, n)>> \o split(SubSeq(t, n + 1, Len(t)))

\* s.isupper(): at least one cased character and no lower-case one
isupper(s) ==
    /\ \E k \in DOMAIN s : s[k] \in UpperChars
    /\ \A k \in DOMAIN s : s[k] \notin LowerChars

RECURSIVE join(_)
\* ' '.join(lines)
join(lines) ==
    IF lines = << >> THEN << >>
    ELSE IF Len(lines) = 1 THEN lines[1]
    ELSE lines[1] \o <<" ">> \o join(Tail(lines))

(***************************************************************************)
(* clean_line                                                              *)
(***************************************************************************)
\* The removal patterns, in the order of the list; all under re.IGNORECASE.
\* SALMON #\d+\s+XX/XX/\d+\s+\d+\.?
PageHeader ==
    LitI(<<"S","A","L","M","O","N"," ","#">>) \o <<Plus(DigitChars), Plus(SpaceChars)>>
    \o LitI(<<"X","X","/","X","X","/">>)
    \o <<Plus(DigitChars), Plus(SpaceChars), Plus(DigitChars), Opt({"."})>>
\* (c) \d+ MARVEL STUDIOS, INC\.
CopyrightNotice ==
    LitI(<<CopyrightSign," ">>) \o <<Plus(DigitChars)>>
    \o LitI(<<" ","M","A","R","V","E","L"," ","S","T","U","D","I","O","S",","," ",
      "I","N","C",".">>)
\* NO DUPLICATION WITHOUT MARVEL'S WRITTEN CONSENT.  (the final . is unescaped:
\* any character)
CopyrightWarning ==
    LitI(<<"N","O"," ","D","U","P","L","I","C","A","T","I","O","N"," ","W","I",
      "T","H","O","U","T"," ","M","A","R","V","E","L",RightQuote,"S"," ",
      "W","R","I","T","T","E","N"," ","C","O","N","S","E","N","T">>)
    \o <<One(Char)>>
\* \(CONTINUED\)
ContinuedMark == LitI(<<"(","C","O","N","T","I","N","U","E","D",")">>)
\* CONTINUED:
ContinuedTop == LitI(<<"C","O","N","T","I","N","U","E","D",":">>)
\* \(MORE\)
MoreMark == LitI(<<"(","M","O","R","E",")">>)
\* ^\d+\s*$
PageNumber == <<Bol, Plus(DigitChars), Star(SpaceChars), Eol>>
\* \d+\s+\d+$
PageTransition == <<Plus(DigitChars), Plus(SpaceChars), Plus(DigitChars), Eol>>
\* ^\s*\d+\s+\d+\s*$
PageNumbersLine ==
    <<Bol, Star(SpaceChars), Plus(DigitChars), Plus(SpaceChars), Plus(DigitChars),
      Star(SpaceChars), Eol>>
patterns ==
    <<PageHeader, CopyrightNotice, CopyrightWarning, ContinuedMark, ContinuedTop,
      MoreMark, PageNumber, PageTransition, PageNumbersLine>>

RECURSIVE ApplyPatterns(_, _)
\* for pattern in patterns: cleaned_line = re.sub(pattern, '', cleaned_line)
ApplyPatterns(pats, cleaned_line) ==
    IF pats = << >> THEN cleaned_line
    ELSE ApplyPatterns(Tail(pats), re_sub(Head(pats), cleaned_line))

clean_line(line) == strip(ApplyPatterns(patterns, line))

(***************************************************************************)
(* is_valid_dialogue_line                                                  *)
(***************************************************************************)
\* current_character is None before the first cue and after a terminating
\* line.  A cue name is never empty, so None and '' (both false in a
\* condition) are modelled alike as the empty sequence.
None == << >>

common_exclamations ==
    {<<"N","O">>,
     <<"Y","E","S">>,
     <<"O","H">>,
     <<"A","H">>,
     <<"H","E","Y">>,
     <<"H","I">>,
     <<"O","K">>,
     <<"G","O">>,
     <<"S","T","O","P">>,
     <<"W","A","I","T">>,
     <<"W","O","W">>}
\* the characters of word.strip(',.!?-_')
WordStripChars == {",", ".", "!", "?", "-", "_"}

\* HasAllCapsWord with the length test off by one (longer than 3)
HasAllCapsWordLonger(line) ==
    LET words == split(line)
    IN \E k \in DOMAIN words :
          LET w == StripChars(words[k], WordStripChars)
          IN /\ w # << >>
             /\ Len(w) > 3
             /\ isupper(w)
             /\ w \notin common_exclamations

\* the loop over line.split(): some word, stripped of punctuation, is longer
\* than 2, upper-case and no common exclamation
HasAllCapsWord(line) ==
    LET words == split(line)
    IN \E k \in DOMAIN words :
          LET w == StripChars(words[k], WordStripChars)
          IN /\ w # << >>
             /\ Len(w) > 2
             /\ isupper(w)
             /\ w \notin common_exclamations

\* re.match(r'^\d+\.', line)
NumberedLine == <<Bol, Plus(DigitChars), One({"."})>>
IsNumbered(line) == Matches(NumberedLine, line)

\* current_character and current_character.upper() in line.upper()
NamesSpeaker(line, current_character) ==
    /\ current_character # None
    /\ Contains(upper(line), upper(current_character))

non_dialogue_indicators ==
    <<<<"F","A","D","E"," ","I","N",":">>,
      <<"F","A","D","E"," ","O","U","T">>,
      <<"C","U","T"," ","T","O",":">>,
      <<"D","I","S","S","O","L","V","E"," ","T","O",":">>,
      <<"S","M","A","S","H"," ","C","U","T">>,
      <<"Q","U","I","C","K"," ","C","U","T">>,
      <<"M","A","T","C","H"," ","C","U","T">>,
      <<"T","I","T","L","E"," ","O","V","E","R">>,
      <<"S","U","P","E","R",":">>,
      <<"I","N","T",".">>,
      <<"E","X","T",".">>,
      <<"C","O","N","T","I","N","U","E","D",":">>,
      <<"A","N","G","L","E"," ","O","N">>,
      <<"S","C","E","N","E">>,
      <<"A","C","T">>>>
\* any(indicator in line.upper() for indicator in non_dialogue_indicators)
HasIndicator(line) ==
    \E k \in DOMAIN non_dialogue_indicators :
        Contains(upper(line), non_dialogue_indicators[k])

is_valid_dialogue_line(line0, current_character) ==
    LET line == strip(line0)
    IN /\ ~HasAllCapsWord(line)
       /\ ~IsNumbered(line)
       /\ ~NamesSpeaker(line, current_character)
       /\ ~HasIndicator(line)

(***************************************************************************)
(* The speaker cue:                                                        *)
(*   ^(?:THE\s+)?([A-Z][A-Z\s\']+)(?:\s*\([^)]+\))?\s*$                     *)
(***************************************************************************)
ThePrefix == Lit(<<"T","H","E">>) \o <<Plus(SpaceChars)>>
NameGroup == <<One(UpperChars), Plus(UpperChars \cup SpaceChars \cup {"'"})>>
Parenthetical ==
    <<Star(SpaceChars), One({"("}), Plus(Char \ {")"}), One({")"})>>
CueTail == <<Star(SpaceChars), Eol>>
\* the cue pattern without the optional leading THE
CueAlternativesNoThe ==
    <<[pat |-> <<Bol>> \o NameGroup \o Parenthetical \o CueTail, g |-> 2],
      [pat |-> <<Bol>> \o NameGroup \o CueTail, g |-> 2]>>

\* The two optional groups are greedy: the matcher tries each present before
\* absent, the leading one outermost.  Each alternative is paired with the
\* index of the first atom of group 1.
CueAlternatives ==
    <<[pat |-> <<Bol>> \o ThePrefix \o NameGroup \o Parenthetical \o CueTail,
       g |-> 2 + Len(ThePrefix)],
      [pat |-> <<Bol>> \o ThePrefix \o NameGroup \o CueTail,
       g |-> 2 + Len(ThePrefix)],
      [pat |-> <<Bol>> \o NameGroup \o Parenthetical \o CueTail, g |-> 2],
      [pat |-> <<Bol>> \o NameGroup \o CueTail, g |-> 2]>>

RECURSIVE FirstCueMatch(_, _)
\* group(1) of the first alternative that matches, << >> when none does
FirstCueMatch(alts, line) ==
    IF alts = << >> THEN << >>
    ELSE LET m == MatchFrom(Head(alts).pat, 1, line, 1)
             g == Head(alts).g
         IN IF m # << >> THEN SubSeq(line, m[g], m[g + 2] - 1)
            ELSE FirstCueMatch(Tail(alts), line)

\* character_match.group(1) when the line is a speaker cue, else << >>;
\* group 1 starts with a letter, so it is never empty
character_match(line) == FirstCueMatch(CueAlternatives, line)

(***************************************************************************)
(* The inputs                                                              *)
(***************************************************************************)
\* a document of the exhaustive part has at most MaxLines lines
MaxLines == 3

L_JOHN == <<"J","O","H","N">>
L_MARY == <<"M","A","R","Y">>
L_HiAll == <<"H","i"," ","a","l","l">>
L_IntDay == <<"I","N","T","."," ","D","A","Y">>
L_PageNo == <<"1","2">>
L_JohnContd == <<"J","o","h","n"," ","(","c","o","n","t","'","d",")">>
L_OK == <<"O","K">>
\* the lines every document of at most MaxLines lines is made of: a tracked
\* and an untracked cue, a dialogue line, a scene heading, a page number
\* (empty once cleaned), a continuation of JOHN, and a short all-caps line
CoreLines == {L_JOHN, L_MARY, L_HiAll, L_IntDay, L_PageNo, L_JohnContd, L_OK}

L_HelloThere == <<"H","e","l","l","o"," ","t","h","e","r","e">>
L_JOHN_CONTD == <<"J","O","H","N"," ","(","C","O","N","T","'","D",")">>
L_HowAreYou == <<"h","o","w"," ","a","r","e"," ","y","o","u","?">>
L_IThink == <<"I"," ","t","h","i","n","k"," ","w","e"," ","s","h","o","u","l","d",
      " ","g","o",".">>
L_IntKitchen == <<"I","N","T","."," ","K","I","T","C","H","E","N"," ","-"," ","D","A",
      "Y">>
L_LetsEat == <<"L","e","t","'","s"," ","e","a","t",".">>
L_NoWay == <<"N","O"," ","W","A","Y",","," ","I"," ","w","o","n","'","t"," ","d",
      "o"," ","i","t","!">>
L_SecretPlan == <<"T","H","I","S"," ","I","S"," ","A"," ","S","E","C","R","E","T"," ",
      "P","L","A","N">>
L_SeeJohnContd == <<"s","e","e"," ","J","O","H","N"," ","r","u","n"," ","(","c","o","n",
      "t","'","d",")">>
L_WaitNo == <<"W","A","I","T",","," ","n","o","!">>
L_GoR2D2 == <<"g","o"," ","R","2","-","D","2">>
\* longer documents, each of one page
Doc_Continuation == <<<<L_JOHN, L_HelloThere, L_JOHN_CONTD, L_HowAreYou>>>>
Doc_ContinuationLower == <<<<L_JOHN, L_HelloThere, L_JohnContd, L_HowAreYou>>>>
Doc_SceneDirection == <<<<L_MARY, L_IThink, L_IntKitchen, L_MARY, L_LetsEat>>>>
Doc_NoWay == <<<<L_JOHN, L_HiAll, L_NoWay, L_HiAll>>>>
Doc_SecretPlan == <<<<L_JOHN, L_HiAll, L_SecretPlan, L_HiAll>>>>
Doc_OtherContd == <<<<L_JOHN, L_HiAll, L_SeeJohnContd, L_HowAreYou>>>>
Doc_Exclamations == <<<<L_JOHN, L_WaitNo, L_GoR2D2, L_HiAll>>>>
\* two turns of JOHN, the second cue on the last line of a page
Doc_TurnsAcrossPages == <<<<L_JOHN, L_HiAll, L_JOHN>>, <<L_HiAll>>>>
L_AskJohn == <<"A","s","k"," ","J","o","h","n">>
L_OneGo == <<"1","."," ","G","o">>
\* a first line that names the speaker, and a numbered line
Doc_ListAndName == <<<<L_JOHN, L_AskJohn, L_JOHN, L_HiAll, L_OneGo>>>>
\* a turn of JOHN followed by a turn of MARY
Doc_TwoSpeakers == <<<<L_JOHN, L_HiAll, L_MARY, L_HelloThere>>>>
LongDocuments ==
    {Doc_Continuation, Doc_ContinuationLower, Doc_SceneDirection, Doc_NoWay,
     Doc_SecretPlan, Doc_OtherContd, Doc_Exclamations, Doc_TurnsAcrossPages,
     Doc_ListAndName, Doc_TwoSpeakers}

RECURSIVE Paginate(_, _, _)
\* the lines of stream from position k on, cut into pages after the
\* positions in breaks
Paginate(stream, breaks, k) ==
    IF k > Len(stream) THEN << >>
    ELSE LET later == {b \in breaks : b >= k /\ b < Len(stream)}
             last == IF later = {} THEN Len(stream)
                     ELSE CHOOSE b \in later : \A c \in later : b <= c
         IN <<SubSeq(stream, k, last)>> \o Paginate(stream, breaks, last + 1)

\* every sequence of at most MaxLines core lines, cut into pages in every way
Streams == UNION {[1..n -> CoreLines] : n \in 0..MaxLines}
ShortDocuments ==
    {Paginate(st, breaks, 1) : st \in Streams, breaks \in SUBSET (1..(MaxLines - 1))}
Documents == ShortDocuments \cup LongDocuments

N_john == <<"j","o","h","n">>
N_Mary == <<"M","a","r","y">>
\* the names given by the caller: JOHN alone (MARY untracked), or both
CharacterLists == {<<N_john>>, <<N_Mary, N_john>>}

\* cues with a leading THE: before a name, before a single letter, twice
L_THE_HULK == <<"T","H","E"," ","H","U","L","K">>
L_THE_X == <<"T","H","E"," ","X">>
L_THE_THE_HULK == <<"T","H","E"," ","T","H","E"," ","H","U","L","K">>
TitledLines == {L_THE_HULK, L_THE_X, L_THE_THE_HULK, L_HiAll}
\* every one-page document of at most MaxLines of these lines
TitledDocuments ==
    {IF st = << >> THEN << >> ELSE <<st>> :
        st \in UNION {[1..n -> TitledLines] : n \in 0..MaxLines}}
N_the_hulk == <<"t","h","e"," ","h","u","l","k">>
N_hulk == <<"h","u","l","k">>
N_the_x == <<"t","h","e"," ","x">>
\* tracked names with and without the leading THE
TitledCharacterLists == {<<N_the_hulk, N_hulk>>, <<N_the_x, N_hulk>>}

\* Every line of every document is one of RawLines; the pass looks its
\* cleaned form, its cue and its validity up in these tables.
RawLines ==
    CoreLines \cup UNION {Range(d[1]) : d \in LongDocuments} \cup TitledLines
Cleaned == [l \in RawLines |-> clean_line(l)]
CleanedLines == Range(Cleaned)
CueName == [l \in CleanedLines |-> strip(character_match(l))]
Speakers == {None} \cup Range(CueName)
ValidLine == [l \in CleanedLines, c \in Speakers |-> is_valid_dialogue_line(l, c)]

(***************************************************************************)
(* extract_dialogues                                                       *)
(*                                                                         *)
(* pages[p] is the list text.split('\n') of page p; characters is the list *)
(* of names given by the caller.  Indices are 1-based here, 0-based in the *)
(* source.  pc is "loop" during the pass over the pages and "done" once    *)
(* the function has returned.  norm belongs to the specification of        *)
(* clean_line alone (SpecClean below).                                     *)
(***************************************************************************)
VARIABLES pages, characters, page, i, current_character, current_dialogue,
          character_dialogues, pc, norm

vars == <<pages, characters, page, i, current_character, current_dialogue,
          character_dialogues, pc, norm>>

\* the state of the pass as one record
Cur ==
    [page |-> page, i |-> i, current_character |-> current_character,
     current_dialogue |-> current_dialogue,
     character_dialogues |-> character_dialogues, pc |-> pc]

\* character_dialogues = {char.upper(): [] for char in characters}
InitialDialogues(chars) ==
    [c \in {upper(chars[k]) : k \in DOMAIN chars} |-> << >>]

\* the state before the first page
Start(chars) ==
    [page |-> 1, i |-> 1, current_character |-> None, current_dialogue |-> << >>,
     character_dialogues |-> InitialDialogues(chars), pc |-> "loop"]

\* save_dialogue that makes an entry for a speaker that has none
save_dialogue_any_speaker(dialogues, speaker, dialogue) ==
    LET cleaned_dialogue == strip(join(dialogue))
    IN IF cleaned_dialogue = << >> THEN dialogues
       ELSE IF speaker \in DOMAIN dialogues
       THEN [dialogues EXCEPT ![speaker] = Append(@, cleaned_dialogue)]
       ELSE dialogues @@ (speaker :> <<cleaned_dialogue>>)

\* save_dialogue that puts the block in front of the list
save_dialogue_in_front(dialogues, speaker, dialogue) ==
    IF speaker \in DOMAIN dialogues
    THEN LET cleaned_dialogue == strip(join(dialogue))
         IN IF cleaned_dialogue # << >>
            THEN [dialogues EXCEPT ![speaker] = <<cleaned_dialogue>> \o @]
            ELSE dialogues
    ELSE dialogues

\* The body of the three places that save a block: the block is appended to
\* the list of the speaker when the speaker is tracked and the joined text
\* is not empty.
save_dialogue(dialogues, speaker, dialogue) ==
    IF speaker \in DOMAIN dialogues
    THEN LET cleaned_dialogue == strip(join(dialogue))
         IN IF cleaned_dialogue # << >>
            THEN [dialogues EXCEPT ![speaker] = Append(@, cleaned_dialogue)]
            ELSE dialogues
    ELSE dialogues

\* NextLineDialogue without the validity check
NextLineDialogueUnchecked(lines, k, speaker) ==
    IF k + 1 <= Len(lines)
    THEN LET dialogue_line == Cleaned[lines[k + 1]]
         IN IF dialogue_line # << >> THEN <<dialogue_line>> ELSE << >>
    ELSE << >>

\* i += 1; if i < len(lines): dialogue_line = clean_line(lines[i]); if
\* dialogue_line and is_valid_dialogue_line(dialogue_line, current_character):
\* the lines that current_dialogue.append receives, none or one
NextLineDialogue(lines, k, speaker) ==
    IF k + 1 <= Len(lines)
    THEN LET dialogue_line == Cleaned[lines[k + 1]]
         IN IF dialogue_line # << >> /\ ValidLine[dialogue_line, speaker]
            THEN <<dialogue_line>>
            ELSE << >>
    ELSE << >>

ContdMark == <<"(","c","o","n","t","'","d",")">>

\* line = clean_line(lines[i])
CurrentLine(pgs, s) == Cleaned[pgs[s.page][s.i]]

\* Branch with the generic accumulation tested before the cue pattern
BranchAccumulationFirst(pgs, s) ==
    IF s.pc # "loop" THEN "none"
    ELSE IF s.page > Len(pgs) THEN "save_remaining"
    ELSE IF s.i > Len(pgs[s.page]) THEN "next_page"
    ELSE LET line == CurrentLine(pgs, s)
         IN IF line = << >> THEN "skip"
            ELSE IF /\ s.current_character # None
                    /\ s.current_dialogue # << >>
                    /\ ValidLine[line, s.current_character]
                THEN "append"
            ELSE IF CueName[line] # << >> THEN "cue"
            ELSE IF s.current_character # None /\ endswith(line, ContdMark)
                THEN "contd"
            ELSE IF s.current_character # None /\ s.current_dialogue # << >>
                THEN "end"
            ELSE "ignore"

\* Which branch of the loop the state takes next.
Branch(pgs, s) ==
    IF s.pc # "loop" THEN "none"
    ELSE IF s.page > Len(pgs) THEN "save_remaining"
    ELSE IF s.i > Len(pgs[s.page]) THEN "next_page"
    ELSE LET line == CurrentLine(pgs, s)
         IN IF line = << >> THEN "skip"
            ELSE IF CueName[line] # << >> THEN "cue"
            ELSE IF s.current_character # None /\ endswith(line, ContdMark)
                THEN "contd"
            ELSE IF s.current_character # None /\ s.current_dialogue # << >>
                THEN IF ValidLine[line, s.current_character]
                     THEN "append"
                     ELSE "end"
            ELSE "ignore"

\* if not line: i += 1; continue      and the final i += 1 of a line that
\* no branch takes
Advance(s) == [s EXCEPT !.i = s.i + 1]

\* SpeakerCue that saves a block for the previous speaker at every cue, with
\* or without pending lines
SpeakerCueSavesAlways(pgs, s) ==
    LET lines == pgs[s.page]
        name == CueName[CurrentLine(pgs, s)]
        saved == IF s.current_character \in DOMAIN s.character_dialogues
                 THEN [s.character_dialogues EXCEPT
                          ![s.current_character] =
                              Append(@, strip(join(s.current_dialogue)))]
                 ELSE s.character_dialogues
    IN [s EXCEPT !.character_dialogues = saved,
                 !.current_character = name,
                 !.current_dialogue = NextLineDialogue(lines, s.i, name),
                 !.i = s.i + 2]

\* SpeakerCue that saves the block and keeps the pending lines
SpeakerCueKeepsPending(pgs, s) ==
    LET lines == pgs[s.page]
        previous == s.current_character # None /\ s.current_dialogue # << >>
        saved == IF previous
                 THEN save_dialogue(s.character_dialogues, s.current_character,
                                    s.current_dialogue)
                 ELSE s.character_dialogues
        name == CueName[CurrentLine(pgs, s)]
    IN [s EXCEPT !.character_dialogues = saved,
                 !.current_character = name,
                 !.current_dialogue =
                     s.current_dialogue \o NextLineDialogue(lines, s.i, name),
                 !.i = s.i + 2]

\* SpeakerCue that takes the new name before it saves the previous dialogue
SpeakerCueSavesUnderNewName(pgs, s) ==
    LET lines == pgs[s.page]
        previous == s.current_character # None /\ s.current_dialogue # << >>
        name == CueName[CurrentLine(pgs, s)]
        saved == IF previous
                 THEN save_dialogue(s.character_dialogues, name, s.current_dialogue)
                 ELSE s.character_dialogues
        kept == IF previous THEN << >> ELSE s.current_dialogue
    IN [s EXCEPT !.character_dialogues = saved,
                 !.current_character = name,
                 !.current_dialogue = kept \o NextLineDialogue(lines, s.i, name),
                 !.i = s.i + 2]

\* if character_match: save the previous dialogue, take the new name, look
\* at the next line of the page
SpeakerCue(pgs, s) ==
    LET lines == pgs[s.page]
        line == CurrentLine(pgs, s)
        previous == s.current_character # None /\ s.current_dialogue # << >>
        saved == IF previous
                 THEN save_dialogue(s.character_dialogues, s.current_character,
                                    s.current_dialogue)
                 ELSE s.character_dialogues
        kept == IF previous THEN << >> ELSE s.current_dialogue
        name == CueName[line]
    IN [s EXCEPT !.character_dialogues = saved,
                 !.current_character = name,
                 !.current_dialogue = kept \o NextLineDialogue(lines, s.i, name),
                 !.i = s.i + 2]

\* elif current_character and line.endswith("(cont'd)")
ContinuedDialogue(pgs, s) ==
    LET lines == pgs[s.page]
        line == CurrentLine(pgs, s)
        character_name == strip(re_sub(Lit(ContdMark), line))
    IN IF upper(character_name) = s.current_character
       THEN [s EXCEPT !.current_dialogue =
                          @ \o NextLineDialogue(lines, s.i, s.current_character),
                      !.i = s.i + 2]
       ELSE Advance(s)

\* elif current_character and current_dialogue and line, the line valid
AddToDialogue(pgs, s) ==
    [s EXCEPT !.current_dialogue = Append(@, CurrentLine(pgs, s)),
              !.i = s.i + 1]

\* EndDialogue that leaves the speaker active
EndDialogueKeepsSpeaker(pgs, s) ==
    [s EXCEPT !.character_dialogues =
                  save_dialogue(@, s.current_character, s.current_dialogue),
              !.current_dialogue = << >>,
              !.i = s.i + 1]

\* ... the line not valid: save the current dialogue and reset
EndDialogue(pgs, s) ==
    [s EXCEPT !.character_dialogues =
                  save_dialogue(@, s.current_character, s.current_dialogue),
              !.current_dialogue = << >>,
              !.current_character = None,
              !.i = s.i + 1]

\* for page in reader.pages: ... i = 0
NextPage(s) == [s EXCEPT !.page = s.page + 1, !.i = 1]

\* SaveRemaining that returns without saving the pending block
SaveRemainingForgets(s) == [s EXCEPT !.pc = "done"]

\* Save any remaining dialogue; return character_dialogues
SaveRemaining(s) ==
    [s EXCEPT !.character_dialogues =
                  IF s.current_character # None /\ s.current_dialogue # << >>
                  THEN save_dialogue(@, s.current_character, s.current_dialogue)
                  ELSE @,
              !.pc = "done"]

\* one step of the pass
Step(pgs, s) ==
    LET b == Branch(pgs, s)
    IN CASE b = "save_remaining" -> SaveRemaining(s)
         [] b = "next_page" -> NextPage(s)
         [] b = "skip" -> Advance(s)
         [] b = "cue" -> SpeakerCue(pgs, s)
         [] b = "contd" -> ContinuedDialogue(pgs, s)
         [] b = "append" -> AddToDialogue(pgs, s)
         [] b = "end" -> EndDialogue(pgs, s)
         [] b = "ignore" -> Advance(s)
         [] OTHER -> s

RECURSIVE Run(_, _)
\* the pass from state s to the return
Run(pgs, s) == IF s.pc = "done" THEN s ELSE Run(pgs, Step(pgs, s))

\* the dictionary the function returns
extract_dialogues(pgs, chars) == Run(pgs, Start(chars)).character_dialogues

(***************************************************************************)
(* The pass as a state machine: one action per branch of the loop          *)
(***************************************************************************)
Init ==
    /\ \/ pages \in Documents /\ characters \in CharacterLists
       \/ pages \in TitledDocuments /\ characters \in TitledCharacterLists
    /\ page = 1
    /\ i = 1
    /\ current_character = None
    /\ current_dialogue = << >>
    /\ character_dialogues = InitialDialogues(characters)
    /\ pc = "loop"
    /\ norm = << >>

Becomes(s) ==
    /\ page' = s.page
    /\ i' = s.i
    /\ current_character' = s.current_character
    /\ current_dialogue' = s.current_dialogue
    /\ character_dialogues' = s.character_dialogues
    /\ pc' = s.pc
    /\ UNCHANGED <<pages, characters, norm>>

SkipEmptyLine == Branch(pages, Cur) = "skip" /\ Becomes(Advance(Cur))
SpeakerCueLine == Branch(pages, Cur) = "cue" /\ Becomes(SpeakerCue(pages, Cur))
ContinuedLine ==
    Branch(pages, Cur) = "contd" /\ Becomes(ContinuedDialogue(pages, Cur))
DialogueLine == Branch(pages, Cur) = "append" /\ Becomes(AddToDialogue(pages, Cur))
NonDialogueLine == Branch(pages, Cur) = "end" /\ Becomes(EndDialogue(pages, Cur))
IgnoredLine == Branch(pages, Cur) = "ignore" /\ Becomes(Advance(Cur))
EndOfPage == Branch(pages, Cur) = "next_page" /\ Becomes(NextPage(Cur))
EndOfInput == Branch(pages, Cur) = "save_remaining" /\ Becomes(SaveRemaining(Cur))

Next ==
    \/ SkipEmptyLine
    \/ SpeakerCueLine
    \/ ContinuedLine
    \/ DialogueLine
    \/ NonDialogueLine
    \/ IgnoredLine
    \/ EndOfPage
    \/ EndOfInput

Spec == Init /\ [][Next]_vars

(***************************************************************************)
(* clean_line alone: a line is normalised, and the result normalised       *)
(* again.  norm holds the line followed by the results so far.             *)
(***************************************************************************)
\* an input line of the exhaustive part has at most MaxRaw characters
MaxRaw == 4
RawAlphabet == {"1", " ", "a"}
S_Nested == <<"(","C","O","N","T","I","N","(","M","O","R","E",")","U","E","D",")">>
S_More == <<"H","e","l","l","o"," ","t","h","e","r","e"," ","(","M","O","R","E",
      ")">>
S_Header == <<"S","A","L","M","O","N"," ","#","1","2"," "," ","X","X","/","X","X",
      "/","1","8"," ","4","."," ","H","i">>
S_Warning == <<"n","o"," ","d","u","p","l","i","c","a","t","i","o","n"," ","w","i",
      "t","h","o","u","t"," ","m","a","r","v","e","l",RightQuote,"s"," ",
      "w","r","i","t","t","e","n"," ","c","o","n","s","e","n","t",".">>
RawSamples == {S_Nested, S_More, S_Header, S_Warning, L_HiAll, L_PageNo}
RawInputs == UNION {[1..n -> RawAlphabet] : n \in 0..MaxRaw} \cup RawSamples

InitClean ==
    /\ norm \in {<<x>> : x \in RawInputs}
    /\ pages = << >>
    /\ characters = << >>
    /\ page = 1
    /\ i = 1
    /\ current_character = None
    /\ current_dialogue = << >>
    /\ character_dialogues = InitialDialogues(<< >>)
    /\ pc = "clean"

\* cleaned = clean_line(line), then clean_line(cleaned)
Normalize ==
    /\ pc = "clean"
    /\ Len(norm) < 3
    /\ norm' = Append(norm, clean_line(norm[Len(norm)]))
    /\ UNCHANGED <<pages, characters, page, i, current_character,
                   current_dialogue, character_dialogues, pc>>

NextClean == Normalize

SpecClean == InitClean /\ [][NextClean]_vars
(***************************************************************************)
(* The claims                                                              *)
(***************************************************************************)
JOHN == L_JOHN
MARY == L_MARY
\* the state is at a line of a page
AtLine == pc = "loop" /\ page <= Len(pages) /\ i <= Len(pages[page])
\* the current line reaches the generic accumulation: a speaker is active
\* with pending lines and the line is not empty, no cue and does not end in
\* (cont'd)
InAccumulation == Branch(pages, Cur) \in {"append", "end"}
\* the step saves the pending block as the next block of the active speaker
\* when that speaker is tracked (and saves nothing otherwise), and leaves no
\* speaker and no pending line
BlockTerminated ==
    /\ current_character' = None
    /\ current_dialogue' = << >>
    /\ character_dialogues' =
           IF current_character \in DOMAIN character_dialogues
           THEN [character_dialogues EXCEPT
                    ![current_character] = Append(@, join(current_dialogue))]
           ELSE character_dialogues

\* Line l holds a word (a maximal run a..b of non-blank characters) whose
\* core c..d, without the punctuation ,.!?-_ at its two ends, has more than
\* 2 characters, no lower-case letter and at least one upper-case letter,
\* and is not an allow-listed exclamation.
LongCapsWordAt(l, a, b) ==
    /\ a <= b
    /\ \A k \in a..b : l[k] \notin SpaceChars
    /\ (a = 1 \/ l[a - 1] \in SpaceChars)
    /\ (b = Len(l) \/ l[b + 1] \in SpaceChars)
    /\ \E c \in a..b, d \in a..b :
          /\ d - c + 1 > 2
          /\ l[c] \notin WordStripChars
          /\ l[d] \notin WordStripChars
          /\ \A k \in (a..(c - 1)) \cup ((d + 1)..b) : l[k] \in WordStripChars
          /\ \A k \in c..d : l[k] \notin LowerChars
          /\ \E k \in c..d : l[k] \in UpperChars
          /\ SubSeq(l, c, d) \notin common_exclamations
HasLongCapsWord(l) ==
    \E a \in 1..Len(l), b \in 1..Len(l) : LongCapsWordAt(l, a, b)

\* one of the three other rules of the validity check rejects the line
OtherRuleRejects(l, c) == IsNumbered(l) \/ NamesSpeaker(l, c) \/ HasIndicator(l)

\* the validity check rejects the line whoever the active speaker is
RejectedForAll(l) == \A c \in Speakers : ~ValidLine[l, c]

\* The part of C1 that the code satisfies, at every line the pass meets:
\* "THIS IS A SECRET PLAN" is rejected; a line with such a word is rejected,
\* and a line that no other rule rejects is rejected only if it has such a
\* word; in generic accumulation a line with such a word terminates the
\* block.
C1_Rule ==
    /\ AtLine =>
         LET line == CurrentLine(pages, Cur)
             valid == ValidLine[line, current_character]
         IN /\ line = L_SecretPlan => RejectedForAll(line)
            /\ HasLongCapsWord(line) => ~valid
            /\ (~valid /\ ~OtherRuleRejects(line, current_character))
               => HasLongCapsWord(line)
    /\ (InAccumulation /\ HasLongCapsWord(CurrentLine(pages, Cur)))
         => BlockTerminated

\* C1 as stated: the validity check accepts "NO WAY, I won't do it!" for
\* every active speaker whose name the line does not contain, it rejects
\* "THIS IS A SECRET PLAN", the all-caps rule rejects a line only for a word
\* of more than 2 characters that is upper-case and not allow-listed, and in
\* generic accumulation such a line terminates the block.
C1_NoWayAccepted ==
    [][/\ (/\ InAccumulation
            /\ CurrentLine(pages, Cur) = L_NoWay
            /\ ~NamesSpeaker(L_NoWay, current_character))
           => /\ ValidLine[L_NoWay, current_character]
              /\ current_dialogue' = Append(current_dialogue, L_NoWay)
       /\ C1_Rule]_vars

\* C1 amended: the validity check rejects "NO WAY, I won't do it!" for every
\* speaker (WAY is an upper-case word of 3 characters that is not
\* allow-listed) and rejects "THIS IS A SECRET PLAN"; the all-caps rule
\* rejects a line exactly when it holds a word that, stripped of ,.!?-_ at
\* its ends, has more than 2 characters, no lower-case and at least one
\* upper-case letter and is not allow-listed; in generic accumulation such a
\* line terminates the block.
C1_AllCapsRule ==
    [][/\ (AtLine /\ CurrentLine(pages, Cur) = L_NoWay)
           => RejectedForAll(L_NoWay)
       /\ C1_Rule]_vars

\* "NO WAY, I won't do it!" met JOHN's pending block and terminated it
C1_Witness ==
    /\ pages = Doc_NoWay
    /\ page = 1
    /\ i = 4
    /\ current_character = None
    /\ current_dialogue = << >>
    /\ character_dialogues[JOHN] = <<L_HiAll>>

\* the line is a continuation cue of the speaker: it ends in (cont'd), in
\* any letter case, and the text before it is the speaker's name
IsContinuationCue(line, speaker) ==
    LET n == Len(line) - Len(ContdMark)
    IN /\ speaker # None
       /\ n >= 0
       /\ upper(SubSeq(line, n + 1, Len(line))) = upper(ContdMark)
       /\ upper(strip(SubSeq(line, 1, n))) = speaker

B_HelloThereHowAreYou == <<"H","e","l","l","o"," ","t","h","e","r","e"," ","h","o","w"," ","a",
      "r","e"," ","y","o","u","?">>

\* C2: a continuation cue of the active speaker, met while that speaker has
\* pending lines, does not flush the block, and the next line, if valid, is
\* appended to it; the stream JOHN / Hello there / JOHN (CONT'D) /
\* how are you? gives JOHN the single block "Hello there how are you?".
C2_ContinuationJoins ==
    [][/\ (/\ AtLine
           /\ current_dialogue # << >>
           /\ IsContinuationCue(CurrentLine(pages, Cur), current_character))
          => /\ character_dialogues' = character_dialogues
             /\ current_character' = current_character
             /\ current_dialogue' =
                    current_dialogue
                    \o NextLineDialogue(pages[page], i, current_character)
       /\ (pages = Doc_Continuation /\ pc' = "done")
          => character_dialogues'[JOHN] = <<B_HelloThereHowAreYou>>]_vars

\* C3: clean_line(clean_line(x)) = clean_line(x) for every line x.
C3_Idempotent == Len(norm) = 3 => norm[3] = norm[2]

RECURSIVE Flatten(_)
\* the lines of all the pages, in order
Flatten(pgs) == IF pgs = << >> THEN << >> ELSE Head(pgs) \o Flatten(Tail(pgs))

\* C4: the result for the pages is the result for the one page made of all
\* their lines.
C4_PageBoundaries ==
    pc = "done" =>
        character_dialogues = extract_dialogues(<<Flatten(pages)>>, characters)

\* the line has the form of a speaker cue
IsCueLine(line) == CueName[line] # << >>

\* C5 as stated: no line that matches the speaker-cue pattern is ever among
\* the pending lines, whichever path appended it.
C5_CueNeverAppended ==
    \A k \in DOMAIN current_dialogue : ~IsCueLine(current_dialogue[k])

\* C5 amended: the line that an iteration takes as a speaker cue is not
\* appended to the pending lines, and generic accumulation never appends a
\* line of cue form; a line of cue form gets among the pending lines only as
\* the line consumed right after a cue or a continuation cue, which is
\* tested for validity and not against the cue pattern (e.g. "OK").
C5_CueLineNotAppended ==
    [][/\ Branch(pages, Cur) = "cue"
          => CurrentLine(pages, Cur) \notin Range(current_dialogue')
       /\ Branch(pages, Cur) = "append" => ~IsCueLine(CurrentLine(pages, Cur))
       /\ \A l \in Range(current_dialogue') \ Range(current_dialogue) :
            IsCueLine(l)
            => /\ Branch(pages, Cur) \in {"cue", "contd"}
               /\ i + 1 <= Len(pages[page])
               /\ l = Cleaned[pages[page][i + 1]]]_vars

\* the cue MARY met JOHN's pending block: the block is saved and the cue
\* line is not a pending line
C5_Witness ==
    /\ pc = "loop"
    /\ current_character = MARY
    /\ character_dialogues[JOHN] = <<L_HiAll>>
    /\ MARY \notin Range(current_dialogue)

B_IThink == L_IThink
B_LetsEat == L_LetsEat
\* the scene-direction example of C6
SceneDirectionExample ==
    (pages = Doc_SceneDirection /\ MARY \in DOMAIN character_dialogues
       /\ pc' = "done")
    => character_dialogues'[MARY] = <<B_IThink, B_LetsEat>>

C7_EndOfInputFlush ==
    (/\ pc = "done"
     /\ current_character \in DOMAIN character_dialogues
     /\ current_dialogue # << >>)
    => LET blocks == character_dialogues[current_character]
       IN /\ blocks # << >>
          /\ blocks[Len(blocks)] = join(current_dialogue)

\* the input ended with two pending lines of a tracked speaker
C7_Witness ==
    /\ pc = "done"
    /\ current_character \in DOMAIN character_dialogues
    /\ Len(current_dialogue) >= 2

\* the upper-cased names given by the caller
TrackedNames == {upper(characters[k]) : k \in DOMAIN characters}

\* C8: the keys of the result are at every moment the upper-cased tracked
\* names, and no step changes any list while the active speaker is not one
\* of them (its pending lines are dropped at the flush).
C8_UntrackedFiltered ==
    [][/\ DOMAIN character_dialogues = TrackedNames
       /\ DOMAIN character_dialogues' = TrackedNames
       /\ current_character \notin DOMAIN character_dialogues
          => character_dialogues' = character_dialogues]_vars

\* MARY, untracked, had a pending line when the cue JOHN flushed it
C8_Witness ==
    /\ characters = <<N_john>>
    /\ pages = <<<<L_MARY, L_HiAll, L_JOHN>>>>
    /\ page = 1
    /\ i = 5
    /\ current_character = JOHN
    /\ character_dialogues[JOHN] = << >>

\* C9: every stored block is a non-empty string.
C9_BlocksNonEmpty ==
    \A c \in DOMAIN character_dialogues :
        \A k \in DOMAIN character_dialogues[c] : character_dialogues[c][k] # << >>

\* a block has been stored and the function has returned
C9_Witness ==
    /\ pc = "done"
    /\ \E c \in DOMAIN character_dialogues : character_dialogues[c] # << >>

\* s is a prefix of t
IsPrefix(s, t) == Len(s) <= Len(t) /\ SubSeq(t, 1, Len(s)) = s

\* C10: every step leaves each character's list as it was or with blocks
\* added at its end.
C10_AppendOnly ==
    [][\A c \in DOMAIN character_dialogues :
          /\ c \in DOMAIN character_dialogues'
          /\ IsPrefix(character_dialogues[c], character_dialogues'[c])]_vars

\* a second block has been appended after a first
C10_Witness ==
    \E c \in DOMAIN character_dialogues : Len(character_dialogues[c]) >= 2

\* the pages with line l put in front of position k of page p (at the end of
\* the page when k is one more than its length)
InsertLine(pgs, p, k, l) ==
    [pgs EXCEPT ![p] = SubSeq(@, 1, k - 1) \o <<l>> \o SubSeq(@, k, Len(@))]

\* C11: a line that normalizes to the empty string, put at any position of
\* the input (directly after a cue included), leaves the final result, the
\* active speaker and the pending lines as they are without it.
C11_EmptyLineNoEffect ==
    pc = "done" =>
        \A p \in 1..Len(pages) : \A k \in 1..(Len(pages[p]) + 1) :
            LET with == Run(InsertLine(pages, p, k, L_PageNo), Start(characters))
            IN /\ with.character_dialogues = character_dialogues
               /\ with.current_character = current_character
               /\ with.current_dialogue = current_dialogue

\* C12: with a speaker active and no pending line (the line after the cue
\* was empty or not valid), a later non-empty line that is no cue, does not
\* end in "(cont'd)" and is valid for the speaker becomes a pending line.
C12_LaterLineAppended ==
    [][(/\ AtLine
        /\ current_character # None
        /\ current_dialogue = << >>
        /\ CurrentLine(pages, Cur) # << >>
        /\ ~IsCueLine(CurrentLine(pages, Cur))
        /\ ~endswith(CurrentLine(pages, Cur), ContdMark)
        /\ ValidLine[CurrentLine(pages, Cur), current_character])
       => /\ current_dialogue' = <<CurrentLine(pages, Cur)>>
          /\ current_character' = current_character]_vars

\* no position
NoPos == <<0, 0>>
\* the position <<page, index>> of the line that follows position <<p, k>>
\* in the stream of all the lines of all the pages, NoPos after the last
NextPos(pgs, p, k) ==
    IF k < Len(pgs[p]) THEN <<p, k + 1>>
    ELSE LET later == {q \in (p + 1)..Len(pgs) : Len(pgs[q]) > 0}
         IN IF later = {} THEN NoPos
            ELSE <<CHOOSE q \in later : \A r \in later : q <= r, 1>>
\* position <<p, k>> comes after position pos
After(p, k, pos) == p > pos[1] \/ (p = pos[1] /\ k > pos[2])
\* the cleaned line at position pos
LineAt(pgs, pos) == Cleaned[pgs[pos[1]][pos[2]]]
\* the speaker cue at the current line is followed in the stream by a line
\* that passes, or that fails, the validity check for the cue's name
CueFollowedBy(valid) ==
    /\ Branch(pages, Cur) = "cue"
    /\ NextPos(pages, page, i) # NoPos
    /\ LET first == LineAt(pages, NextPos(pages, page, i))
       IN /\ first # << >>
          /\ ValidLine[first, CueName[CurrentLine(pages, Cur)]] = valid

\* C13: when the line that follows a speaker cue fails the validity check,
\* the cue's step consumes it: the pass goes on after that line, which is
\* therefore in no block and is never the current line (never taken as a
\* cue or continuation cue), and the new speaker stays active with no
\* pending line.
C13_InvalidFirstLineDropped ==
    [][CueFollowedBy(FALSE)
       => /\ current_character' = CueName[CurrentLine(pages, Cur)]
          /\ current_dialogue' = << >>
          /\ After(page', i', NextPos(pages, page, i))]_vars

\* C14: a speaker cue met while a speaker has pending lines saves that block
\* (for a tracked speaker, as the next block of its list) before the new
\* speaker is set, also when the cue names the same speaker; and a turn of
\* the same tracked speaker whose first line is valid then starts a block of
\* its own with that line, so that the two turns give two blocks.
C14_CueFlushesBlock ==
    [][(Branch(pages, Cur) = "cue" /\ current_dialogue # << >>)
       => /\ character_dialogues' =
                 IF current_character \in DOMAIN character_dialogues
                 THEN [character_dialogues EXCEPT
                          ![current_character] = Append(@, join(current_dialogue))]
                 ELSE character_dialogues
          /\ current_character' = CueName[CurrentLine(pages, Cur)]
          /\ (/\ CueFollowedBy(TRUE)
              /\ CueName[CurrentLine(pages, Cur)] = current_character
              /\ current_character \in DOMAIN character_dialogues)
             => current_dialogue' = <<LineAt(pages, NextPos(pages, page, i))>>]_vars

\* text t occurs in line l, letter case ignored
OccursIgnoringCase(l, t) ==
    \E k \in 0..(Len(l) - Len(t)) :
        \A j \in 1..Len(t) : ToUpper(l[k + j]) = ToUpper(t[j])
\* line l starts with digits followed by a full stop
HasListPrefix(l) ==
    \E n \in 1..(Len(l) - 1) :
        /\ \A j \in 1..n : l[j] \in DigitChars
        /\ l[n + 1] = "."

\* C15: every pending line is non-empty, is valid for the active speaker
\* and so holds neither the speaker's name nor an indicator in any letter
\* case, no list prefix and no upper-case word longer than 2 characters
\* that is not allow-listed.
C15_PendingLinesValid ==
    \A k \in DOMAIN current_dialogue :
        LET l == current_dialogue[k]
        IN /\ l # << >>
           /\ current_character # None
           /\ ValidLine[l, current_character]
           /\ ~OccursIgnoringCase(l, current_character)
           /\ \A n \in DOMAIN non_dialogue_indicators :
                 ~OccursIgnoringCase(l, non_dialogue_indicators[n])
           /\ ~HasListPrefix(l)
           /\ ~HasLongCapsWord(l)

\* JOHN's pending lines came from the line after the cue and from the line
\* after the continuation cue
C15_Witness ==
    /\ current_character = JOHN
    /\ current_dialogue = <<L_HelloThere, L_HowAreYou>>

\* C16: pending lines imply an active speaker; a step that clears the
\* speaker leaves no pending line; and after a cue, or any change of
\* speaker, the pending lines are at most the line consumed by that step.
C16_PendingImpliesSpeaker ==
    [][/\ current_dialogue # << >> => current_character # None
       /\ current_dialogue' # << >> => current_character' # None
       /\ current_character' = None => current_dialogue' = << >>
       /\ (Branch(pages, Cur) = "cue" \/ current_character' # current_character)
          => /\ Len(current_dialogue') <= 1
             /\ current_dialogue' # << >>
                => /\ i + 1 <= Len(pages[page])
                   /\ current_dialogue' = <<Cleaned[pages[page][i + 1]]>>]_vars

\* MARY's cue has saved JOHN's block and MARY has a pending line of her own
C16_Witness ==
    /\ pages = Doc_TwoSpeakers
    /\ current_character = MARY
    /\ current_dialogue = <<L_HelloThere>>
    /\ character_dialogues[JOHN] = <<L_HiAll>>

RECURSIVE SpaceJoined(_)
\* the lines in order, one space between two of them
SpaceJoined(ls) ==
    IF ls = << >> THEN << >>
    ELSE IF Len(ls) = 1 THEN ls[1]
    ELSE SpaceJoined(SubSeq(ls, 1, Len(ls) - 1)) \o <<" ">> \o ls[Len(ls)]

\* the lines the step at the current position consumes: the current line
\* and the line after it on the page
ConsumedLines ==
    IF AtLine
    THEN {CurrentLine(pages, Cur)}
         \cup (IF i + 1 <= Len(pages[page])
               THEN {Cleaned[pages[page][i + 1]]} ELSE {})
    ELSE {}

\* C17: a step changes the result only by appending, to the list of the
\* active speaker, the pending lines joined in order with single spaces;
\* the active speaker changes only to the name extracted from a cue at the
\* current line or, at a terminating line, to none; the pending lines are
\* lines consumed since the last such change, under that speaker; and in the
\* returned result a name with a block is the extracted name of a cue of
\* the input.
C17_BlockProvenance ==
    [][/\ \/ character_dialogues' = character_dialogues
          \/ /\ Branch(pages, Cur) \in {"cue", "end", "save_remaining"}
             /\ current_character \in DOMAIN character_dialogues
             /\ current_dialogue # << >>
             /\ character_dialogues' =
                    [character_dialogues EXCEPT
                        ![current_character] =
                            Append(@, SpaceJoined(current_dialogue))]
       /\ current_character' # current_character
          => \/ /\ Branch(pages, Cur) = "cue"
                /\ current_character' = CueName[CurrentLine(pages, Cur)]
             \/ /\ Branch(pages, Cur) = "end"
                /\ current_character' = None
       /\ LET kept == IF Branch(pages, Cur) = "cue"
                         \/ current_character' # current_character
                      THEN << >> ELSE current_dialogue
          IN \/ current_dialogue' = << >>
             \/ current_dialogue' = kept
             \/ /\ current_character' # None
                /\ Len(current_dialogue') = Len(kept) + 1
                /\ IsPrefix(kept, current_dialogue')
                /\ current_dialogue'[Len(current_dialogue')] \in ConsumedLines
       /\ pc' = "done"
          => \A c \in DOMAIN character_dialogues' :
                character_dialogues'[c] # << >>
                => \E p \in DOMAIN pages : \E k \in DOMAIN pages[p] :
                      CueName[Cleaned[pages[p][k]]] = c]_vars

\* the function has returned JOHN's block of two lines, one from the line
\* after the cue and one from the line after the continuation cue
C17_Witness ==
    /\ pc = "done"
    /\ pages = Doc_ContinuationLower
    /\ character_dialogues[JOHN] = <<B_HelloThereHowAreYou>>

HULK == <<"H","U","L","K">>
The_ == <<"T","H","E"," ">>
\* s begins with "THE "
BeginsWithThe(s) == Len(s) > Len(The_) /\ SubSeq(s, 1, Len(The_)) = The_
\* what follows the leading "THE " of s
AfterThe(s) == SubSeq(s, Len(The_) + 1, Len(s))
\* an upper-case name of at least two characters: a letter, then letters,
\* spaces and apostrophes, no space at the end
IsUpperName(x) ==
    /\ Len(x) >= 2
    /\ x[1] \in UpperChars
    /\ \A k \in 2..Len(x) : x[k] \in UpperChars \cup {" ", "'"}
    /\ x[Len(x)] # " "
\* a cue of the form "THE X" is taken at the current line and sets the
\* speaker to X
TheCueSetsName ==
    (/\ Branch(pages, Cur) = "cue"
     /\ BeginsWithThe(CurrentLine(pages, Cur))
     /\ IsUpperName(AfterThe(CurrentLine(pages, Cur))))
    => current_character' = AfterThe(CurrentLine(pages, Cur))

\* C18 as stated: a cue "THE X", X an upper-case name of at least two
\* characters, sets the active speaker to X, and a tracked name that begins
\* with "THE " never has any block.
C18_TheNameNeverStored ==
    [][/\ TheCueSetsName
       /\ \A c \in DOMAIN character_dialogues' :
             BeginsWithThe(c) => character_dialogues'[c] = << >>]_vars

\* C18 amended: a cue "THE X", X an upper-case name of at least two
\* characters, sets the active speaker to X; a tracked name that begins with
\* "THE " has a block only if a cue of the input has exactly that extracted
\* name, which happens for a cue with a second "THE " ("THE THE HULK" gives
\* "THE HULK") or for a cue "THE X" with X a single character (nothing is
\* removed), and never for the cue "THE HULK", whose block goes to "HULK".
C18_TheStrippedFromCue ==
    [][/\ TheCueSetsName
       /\ \A c \in DOMAIN character_dialogues' :
             (BeginsWithThe(c) /\ character_dialogues'[c] # << >>)
             => \E p \in DOMAIN pages : \E k \in DOMAIN pages[p] :
                   LET l == Cleaned[pages[p][k]]
                   IN /\ CueName[l] = c
                      /\ \/ l = The_ \o c
                         \/ l = c /\ Len(AfterThe(c)) = 1
       /\ (/\ pc' = "done"
           /\ pages = <<<<L_THE_HULK, L_HiAll>>>>
           /\ HULK \in DOMAIN character_dialogues')
          => character_dialogues'[HULK] = <<L_HiAll>>]_vars

\* the cue THE HULK has stored its line under HULK and nothing under
\* THE HULK
C18_Witness ==
    /\ pc = "done"
    /\ pages = <<<<L_THE_HULK, L_HiAll>>>>
    /\ characters = <<N_the_hulk, N_hulk>>
    /\ character_dialogues[HULK] = <<L_HiAll>>
    /\ character_dialogues[L_THE_HULK] = << >>
====
